---------------------------- MODULE Spec2Model ----------------------------
(***************************************************************************)
(* A model of Fasta::FastaPrivate (src/src/utils/bamtools_fasta.cpp): one  *)
(* reader session over a FASTA data file, its optional index file, and the *)
(* C stdio streams it drives.  Bytes are ASCII codes; a text is a sequence *)
(* of bytes.                                                               *)
(***************************************************************************)
EXTENDS Integers, Sequences, FiniteSets, TLC

\* ------------------------------------------------------------------------
\* Bounds of the model.
MaxHandles == 2     \* FILE objects one run may create (fopen successes)
MaxRefId   == 2     \* largest refId a query is called with
MaxPos     == 4     \* largest position / start / stop a query is called with
RoundTripOpens == 4 \* FILE objects one run of SpecRoundTrip may create

\* ------------------------------------------------------------------------
\* Program constants.
CHAR_LF == 10
CHAR_CR == 13
GT      == 62       \* '>'
TAB     == 9
SPACE   == 32
BUFSIZE == 1024     \* char buffer[1024]
EOF     == -1
NULL    == 0        \* what fopen returns on failure
Indeterminate == -2 \* a FILE* member the constructor never initialised

\* ------------------------------------------------------------------------
\* Small helpers on texts.
Min(a, b) == IF a < b THEN a ELSE b

RECURSIVE Flatten(_)
Flatten(ss) == IF ss = <<>> THEN <<>> ELSE Head(ss) \o Flatten(Tail(ss))

\* A value converted to size_t: negative ints become huge, so an unsigned
\* comparison orders every non-negative value below every negative one.
ULess(a, b) ==
    IF a >= 0 /\ b >= 0 THEN a < b
    ELSE IF a >= 0 THEN TRUE
    ELSE IF b >= 0 THEN FALSE
    ELSE a < b

\* The C string held in a char buffer: the bytes before the first NUL.
CStr(buf) ==
    IF \E i \in 1..Len(buf) : buf[i] = 0
    THEN SubSeq(buf, 1, (CHOOSE i \in 1..Len(buf) :
                            buf[i] = 0 /\ \A j \in 1..(i-1) : buf[j] # 0) - 1)
    ELSE buf

\* <cctype> in the "C" locale.
IsGraph(c) == c >= 33 /\ c <= 126
IsSpace(c) == c \in {9, 10, 11, 12, 13, 32}
IsDigit(c) == c >= 48 /\ c <= 57

\* ------------------------------------------------------------------------
\* The data files a run may find at the data path.  Each is described by
\* its records (name, rest of the header line, wrapped sequence lines), the
\* bytes before the first record and the line terminator, and rendered to
\* the bytes the program reads.  65 67 71 84 = A C G T, 97 98 = a b.
Rec(name, desc, lines) == [name |-> name, desc |-> desc, lines |-> lines]

\* A description that makes ">a" + description + "\n" one byte longer than
\* the buffer fgets fills.
LongDesc == <<SPACE>> \o [i \in 1..(BUFSIZE - 3) |-> 120]

DataFiles == <<
    \* 1: two records wrapped at 2, "\n": >a AC G   >b T
    [pre |-> <<>>, term |-> <<CHAR_LF>>,
     recs |-> << Rec(<<97>>, <<>>, << <<65, 67>>, <<71>> >>),
                 Rec(<<98>>, <<>>, << <<84>> >>) >>],
    \* 2: wrapped at 2, but the first record is one short line: >a A   >b CG T
    [pre |-> <<>>, term |-> <<CHAR_LF>>,
     recs |-> << Rec(<<97>>, <<>>, << <<65>> >>),
                 Rec(<<98>>, <<>>, << <<67, 71>>, <<84>> >>) >>],
    \* 3: "\r\n" terminators and a description: >a x   AC G
    [pre |-> <<>>, term |-> <<CHAR_CR, CHAR_LF>>,
     recs |-> << Rec(<<97>>, <<SPACE, 120>>, << <<65, 67>>, <<71>> >>) >>],
    \* 4: does not start with '>':  A   >a C
    [pre |-> <<65, CHAR_LF>>, term |-> <<CHAR_LF>>,
     recs |-> << Rec(<<97>>, <<>>, << <<67>> >>) >>],
    \* 5: a form feed inside the name: >a\fb AC
    [pre |-> <<>>, term |-> <<CHAR_LF>>,
     recs |-> << Rec(<<97, 12, 98>>, <<>>, << <<65, 67>> >>) >>],
    \* 6: the second header has no name: >a A   > C
    [pre |-> <<>>, term |-> <<CHAR_LF>>,
     recs |-> << Rec(<<97>>, <<>>, << <<65>> >>),
                 Rec(<<>>, <<>>, << <<67>> >>) >>],
    \* 7: the first sequence line is empty: >a "" A
    [pre |-> <<>>, term |-> <<CHAR_LF>>,
     recs |-> << Rec(<<97>>, <<>>, << <<>>, <<65>> >>) >>],
    \* 8: a header line of BUFSIZE + 1 bytes: >a xxx...x   AC G
    [pre |-> <<>>, term |-> <<CHAR_LF>>,
     recs |-> << Rec(<<97>>, LongDesc, << <<65, 67>>, <<71>> >>) >>]
>>

FileIds == 1..Len(DataFiles)


RenderLines(lines, term) ==
    Flatten([i \in 1..Len(lines) |-> lines[i] \o term])

RenderRec(rec, term) ==
    <<GT>> \o rec.name \o rec.desc \o term \o RenderLines(rec.lines, term)

Render(fd) ==
    fd.pre \o Flatten([i \in 1..Len(fd.recs) |-> RenderRec(fd.recs[i], fd.term)])

Bytes == [f \in FileIds |-> Render(DataFiles[f])]

\* The de-wrapped sequence of a record.
Dewrap(rec) == Flatten(rec.lines)

\* ------------------------------------------------------------------------
\* C stdio on a stream over the bytes b.  A stream state is [pos, eof]:
\* the file position and the end-of-file indicator.
StreamAt(pos) == [pos |-> pos, eof |-> FALSE]

Fgetc(b, st) ==
    IF st.pos < Len(b)
    THEN [ch |-> b[st.pos + 1], st |-> [pos |-> st.pos + 1, eof |-> st.eof]]
    ELSE [ch |-> EOF, st |-> [pos |-> st.pos, eof |-> TRUE]]

\* ungetc(EOF) fails and changes nothing; a pushed-back byte clears eof.
Ungetc(ch, st) ==
    IF ch = EOF THEN st ELSE [pos |-> st.pos - 1, eof |-> FALSE]

\* fgets(buffer, n, stream): at most n-1 bytes, stopping after a newline.
\* NULL (ok = FALSE) when end-of-file comes before any byte.
Fgets(b, st, n) ==
    LET avail == IF st.pos < Len(b) THEN Len(b) - st.pos ELSE 0
        lim   == Min(avail, n - 1)
        nl    == {i \in 1..lim : b[st.pos + i] = CHAR_LF}
        k     == IF nl = {} THEN lim
                 ELSE CHOOSE i \in nl : \A j \in nl : i <= j
        hitEof == nl = {} /\ avail < n - 1
    IN  IF avail = 0
        THEN [ok |-> FALSE, buf |-> <<>>, st |-> [pos |-> st.pos, eof |-> TRUE]]
        ELSE [ok |-> TRUE,
              buf |-> SubSeq(b, st.pos + 1, st.pos + k),
              st |-> [pos |-> st.pos + k, eof |-> st.eof \/ hitEof]]

\* ------------------------------------------------------------------------
\* Chomp: drop every trailing LF / CR of the C string in the buffer.
Chomp(buf) ==
    LET s    == CStr(buf)
        keep == {i \in 1..Len(s) : s[i] # CHAR_LF /\ s[i] # CHAR_CR}
    IN  IF keep = {} THEN <<>>
        ELSE SubSeq(s, 1, CHOOSE i \in keep : \A j \in keep : j <= i)

\* GetNameFromHeader: the first run of bytes other than space, tab, LF, CR
\* after the leading '>'.
HeaderWs(c) == c = SPACE \/ c = TAB \/ c = CHAR_LF \/ c = CHAR_CR

GetNameFromHeader(header) ==
    LET s       == SubSeq(header, 2, Len(header))
        nameLen == Len(s)
        nonWs   == {i \in 1..nameLen : ~HeaderWs(s[i])}
        start   == IF nonWs = {} THEN nameLen
                   ELSE (CHOOSE i \in nonWs : \A j \in nonWs : i <= j) - 1
        ws      == {i \in (start + 1)..nameLen : HeaderWs(s[i])}
        stop    == IF ws = {} THEN nameLen
                   ELSE (CHOOSE i \in ws : \A j \in ws : i <= j) - 1
    IN  IF start = stop
        THEN [ok |-> FALSE, name |-> <<>>]
        ELSE [ok |-> TRUE, name |-> CStr(SubSeq(s, start + 1, stop))]

\* GetNextHeader: one line that must start with '>'.
GetNextHeader(b, st) ==
    IF st.eof THEN [ok |-> FALSE, header |-> <<>>, st |-> st]
    ELSE LET r == Fgets(b, st, BUFSIZE)
         IN  IF ~r.ok THEN [ok |-> FALSE, header |-> <<>>, st |-> r.st]
             ELSE IF r.buf[1] # GT THEN [ok |-> FALSE, header |-> <<>>, st |-> r.st]
             ELSE [ok |-> TRUE, header |-> CStr(r.buf), st |-> r.st]

\* GetNextSequence: chomped lines appended until the next '>' line,
\* end-of-file, or until count bytes are held (count is a size_t, -1 is
\* the default argument).
RECURSIVE ReadSequence(_, _, _, _)
ReadSequence(b, st, sequence, count) ==
    IF ~ULess(Len(sequence), count)
    THEN [ok |-> TRUE, sequence |-> sequence, st |-> st]
    ELSE LET g   == Fgetc(b, st)
             st1 == Ungetc(g.ch, g.st)
         IN  IF g.ch = GT \/ st1.eof
             THEN [ok |-> TRUE, sequence |-> sequence, st |-> st1]
             ELSE LET r == Fgets(b, st1, BUFSIZE)
                  IN  IF ~r.ok
                      THEN [ok |-> FALSE, sequence |-> sequence, st |-> r.st]
                      ELSE ReadSequence(b, r.st, sequence \o Chomp(r.buf), count)

GetNextSequence(b, st, count) ==
    IF st.eof THEN [ok |-> FALSE, sequence |-> <<>>, st |-> st]
    ELSE ReadSequence(b, st, <<>>, count)

\* ------------------------------------------------------------------------
\* The index file's text form.
\* operator<< of an integer: decimal digits, '-' for a negative value.
RECURSIVE Digits(_)
Digits(n) == IF n < 10 THEN <<48 + n>> ELSE Digits(n \div 10) \o <<48 + (n % 10)>>

IntToStr(n) == IF n < 0 THEN <<45>> \o Digits(0 - n) ELSE Digits(n)

\* One line of WriteIndexData: the five fields, tab separated, std::endl.
FormatEntry(data) ==
    data.Name \o <<TAB>> \o IntToStr(data.Length) \o <<TAB>> \o
    IntToStr(data.Offset) \o <<TAB>> \o IntToStr(data.LineLength) \o <<TAB>> \o
    IntToStr(data.ByteLength) \o <<CHAR_LF>>

\* operator>> on the std::stringstream holding the line s.  A reader state
\* is [i, bad]: i bytes consumed; bad when failbit or eofbit is set, after
\* which every extraction fails and leaves its target untouched.
SkipWs(s, i) ==
    LET rest == {j \in (i + 1)..Len(s) : ~IsSpace(s[j])}
    IN  IF rest = {} THEN Len(s)
        ELSE (CHOOSE j \in rest : \A k \in rest : j <= k) - 1

\* The end (bytes consumed) of the run starting after i whose bytes satisfy
\* the test given as the set of accepted bytes' positions.
RunEnd(s, i, accepted) ==
    LET stops == {j \in (i + 1)..Len(s) : j \notin accepted}
    IN  IF stops = {} THEN Len(s)
        ELSE (CHOOSE j \in stops : \A k \in stops : j <= k) - 1

\* operator>>(std::string&): the string is erased, then takes the bytes up
\* to the next white space; no byte at all sets failbit.
ReadName(s, rd) ==
    IF rd.bad THEN [val |-> <<>>, set |-> FALSE, rd |-> rd]
    ELSE LET i == SkipWs(s, rd.i)
             e == RunEnd(s, i, {j \in 1..Len(s) : ~IsSpace(s[j])})
         IN  [val |-> SubSeq(s, i + 1, e), set |-> TRUE,
              rd |-> [i |-> e, bad |-> e = Len(s)]]

RECURSIVE DigitsValue(_)
DigitsValue(ds) ==
    IF ds = <<>> THEN 0
    ELSE 10 * DigitsValue(SubSeq(ds, 1, Len(ds) - 1)) + (ds[Len(ds)] - 48)

\* operator>>(int&): optional sign and decimal digits.  With no digit the
\* target is set to 0 and failbit is set; when the stream is already bad,
\* or only white space is left, the target is not written at all.
ReadInt(s, rd) ==
    IF rd.bad THEN [val |-> 0, set |-> FALSE, rd |-> rd]
    ELSE LET i == SkipWs(s, rd.i)
         IN  IF i = Len(s)
             THEN [val |-> 0, set |-> FALSE, rd |-> [i |-> i, bad |-> TRUE]]
             ELSE LET signed == s[i + 1] = 45 \/ s[i + 1] = 43
                      d0 == IF signed THEN i + 1 ELSE i
                      e  == RunEnd(s, d0, {j \in 1..Len(s) : IsDigit(s[j])})
                      v  == DigitsValue(SubSeq(s, d0 + 1, e))
                  IN  IF e = d0
                      THEN [val |-> 0, set |-> TRUE, rd |-> [i |-> e, bad |-> TRUE]]
                      ELSE [val |-> IF s[i + 1] = 45 THEN 0 - v ELSE v,
                            set |-> TRUE,
                            rd |-> [i |-> e, bad |-> e = Len(s)]]

\* One pass of the loop body of LoadIndexData over the line held in buffer:
\* a FastaIndexData whose integer members start indeterminate (garbage), and
\* the stream's bad flag, which indexBuffer.str("") does not clear.  While
\* the stream is bad, "indexBuffer << buffer" inserts nothing.
ParseEntry(buffer, bad, garbage) ==
    LET s  == IF bad THEN <<>> ELSE CStr(buffer)
        r0 == [i |-> 0, bad |-> bad]
        n  == ReadName(s, r0)
        l  == ReadInt(s, n.rd)
        o  == ReadInt(s, l.rd)
        ll == ReadInt(s, o.rd)
        bl == ReadInt(s, ll.rd)
        V(r) == IF r.set THEN r.val ELSE garbage
    IN  [data |-> [Name |-> n.val, Length |-> V(l), Offset |-> V(o),
                   LineLength |-> V(ll), ByteLength |-> V(bl)],
         bad |-> bl.rd.bad]

\* The loop of LoadIndexData: stops at a blank line or end-of-file.
RECURSIVE LoadLines(_, _, _, _, _)
LoadLines(b, st, index, bad, garbage) ==
    LET g == Fgetc(b, st)
    IN  IF g.ch = CHAR_LF \/ g.st.eof
        THEN [ok |-> TRUE, index |-> index, st |-> g.st]
        ELSE LET r == Fgets(b, Ungetc(g.ch, g.st), BUFSIZE)
             IN  IF ~r.ok
                 THEN [ok |-> FALSE, index |-> index, st |-> r.st]
                 ELSE LET p == ParseEntry(r.buf, bad, garbage)
                      IN  LoadLines(b, r.st, Append(index, p.data), p.bad, garbage)

\* ------------------------------------------------------------------------
\* The state.
VARIABLES
    IsOpen, HasIndex, IsIndexOpen,  \* the session's flags
    Stream, IndexStream,            \* its FILE* members: a handle, NULL, or
                                    \* Indeterminate
    Index,                          \* std::vector<FastaIndexData>
    files,      \* every FILE object created so far, by handle 1, 2, ...
    disk,       \* the index files on disk, by path
    dataFile,   \* which of DataFiles is at the data path
    cap,        \* how many FILE objects this run may create
    call,       \* the last call made on the session and what it returned
    origin,     \* where the entries of Index come from
    halted      \* the process was ended by undefined behaviour

vars == <<IsOpen, HasIndex, IsIndexOpen, Stream, IndexStream, Index,
          files, disk, dataFile, cap, call, origin, halted>>

\* Paths.  The data path holds DataFiles[dataFile]; nothing is at
\* MissingPath.  NewIdx does not exist at first and can be created; OldIdx
\* exists, holds OldIdxBytes, and cannot be written.
DataPath    == "ref.fa"
MissingPath == "missing.fa"
NewIdx      == "ref.fa.fai"
OldIdx      == "old.fai"
IndexPaths  == {NewIdx, OldIdx}

\* "x 2 3 2 3" then "y z": a well-formed line and a malformed one.
OldIdxBytes == <<120, TAB, 50, TAB, 51, TAB, 50, TAB, 51, CHAR_LF,
                 121, TAB, 122, CHAR_LF>>

Writable(path) == path = NewIdx

\* What an indeterminate int of a FastaIndexData may hold.
Garbage == {0, 7}

NewFile(path, mode) ==
    [path |-> path, mode |-> mode, open |-> TRUE, pos |-> 0, eof |-> FALSE]

\* fclose(h): the FILE object is gone, and nothing of it is left to read.
Gone == [path |-> "", mode |-> "", open |-> FALSE, pos |-> 0, eof |-> FALSE]

\* A FILE object left open by a session that no longer exists: no pointer to
\* it is left in the program.
Lost == [path |-> "", mode |-> "", open |-> TRUE, pos |-> 0, eof |-> FALSE]

\* A FILE* the program may hand to stdio: one that fopen returned and
\* fclose has not been given yet.
Valid(fs, h) == h \in 1..Len(fs) /\ fs[h].open

Fclose(fs, h) == IF Valid(fs, h) THEN [fs EXCEPT ![h] = Gone] ELSE fs

StreamOf(fs, h) == [pos |-> fs[h].pos, eof |-> fs[h].eof]

\* The stream state a call leaves in FILE h.
Moved(fs, h, st) == [fs EXCEPT ![h] = [@ EXCEPT !.pos = st.pos, !.eof = st.eof]]

\* ------------------------------------------------------------------------
\* A call is a function from the state it is made in to the state it leaves
\* and what it hands the caller.  The state is the record s: the session's
\* members, the FILE objects and the disk; ret, out, mode, closed and ub are
\* what the call reports: its return ("true", "false", or "throw" for an
\* exception leaving the call), its output argument, the path a query took,
\* the FILE* values it gave to fclose, and the undefined behaviour it
\* executed, "" for none.
Cur ==
    [IsOpen |-> IsOpen, HasIndex |-> HasIndex, IsIndexOpen |-> IsIndexOpen,
     Stream |-> Stream, IndexStream |-> IndexStream, Index |-> Index,
     files |-> files, disk |-> disk, origin |-> origin,
     ret |-> "", out |-> <<>>, mode |-> "", closed |-> <<>>, ub |-> ""]

Return(s, ret) == [s EXCEPT !.ret = ret]

\* Undefined behaviour: the stdio call is taken to fail if the process
\* goes on.
Undefined(s, what, ret) == [s EXCEPT !.ret = ret, !.ub = what]

Contents(s, h) ==
    IF s.files[h].path = DataPath THEN Bytes[dataFile]
    ELSE s.disk[s.files[h].path].bytes

NoArgs == [file |-> "", idx |-> "", refId |-> 0, a |-> 0, b |-> 0]

Returned(op, args, r, crashed) ==
    [op |-> op, file |-> args.file, idx |-> args.idx, refId |-> args.refId,
     a |-> args.a, b |-> args.b,
     ret |-> IF crashed THEN "crash" ELSE r.ret,
     out |-> r.out, mode |-> r.mode, closed |-> r.closed, ub |-> r.ub,
     first |-> call.op = "ctor"]

\* The step of the model for a call that takes the state to r.  Undefined
\* behaviour may end the process.
Apply(op, args, r) ==
    /\ ~halted
    /\ Len(r.files) <= cap
    /\ IsOpen' = r.IsOpen
    /\ HasIndex' = r.HasIndex
    /\ IsIndexOpen' = r.IsIndexOpen
    /\ Stream' = r.Stream
    /\ IndexStream' = r.IndexStream
    /\ Index' = r.Index
    /\ files' = r.files
    /\ disk' = r.disk
    /\ origin' = r.origin
    /\ \E h \in (IF r.ub = "" THEN {FALSE} ELSE BOOLEAN) :
           halted' = h /\ call' = Returned(op, args, r, h)
    /\ UNCHANGED <<dataFile, cap>>

\* ------------------------------------------------------------------------
\* Close
CloseStream(s) ==
    IF ~s.IsOpen THEN s
    ELSE [s EXCEPT !.files = Fclose(s.files, s.Stream),
                   !.closed = Append(s.closed, s.Stream),
                   !.ub = IF Valid(s.files, s.Stream) THEN @ ELSE "fclose",
                   !.IsOpen = FALSE]

CloseIndexStream(s) ==
    IF ~(s.HasIndex /\ s.IsIndexOpen) THEN s
    ELSE [s EXCEPT !.files = Fclose(s.files, s.IndexStream),
                   !.closed = Append(s.closed, s.IndexStream),
                   !.ub = IF Valid(s.files, s.IndexStream) THEN @ ELSE "fclose",
                   !.HasIndex = FALSE,
                   !.IsIndexOpen = FALSE]

CloseResult(s) == Return(CloseIndexStream(CloseStream(s)), "true")

Close == Apply("Close", NoArgs, CloseResult(Cur))

\* ~Fasta then Fasta(): the session object is destroyed (its destructor
\* calls Close) and a new one is constructed.  The FILE objects the old
\* session left open stay open.
Constructed(s) ==
    [s EXCEPT !.files = [h \in 1..Len(s.files) |->
                            IF s.files[h].open THEN Lost ELSE Gone],
              !.IsOpen = FALSE, !.HasIndex = FALSE, !.IsIndexOpen = FALSE,
              !.Stream = Indeterminate, !.IndexStream = Indeterminate,
              !.Index = <<>>, !.origin = "none", !.ret = ""]

New == Apply("ctor", NoArgs, Constructed(CloseResult(Cur)))

\* ------------------------------------------------------------------------
\* Open and LoadIndexData.
LoadIndexData(s, garbage) ==
    IF ~s.IsIndexOpen THEN [ok |-> FALSE, index |-> s.Index, st |-> StreamAt(0)]
    ELSE LoadLines(Contents(s, s.IndexStream), StreamOf(s.files, s.IndexStream),
                   <<>>, FALSE, garbage)

\* HasIndex = LoadIndexData(); success &= HasIndex
OpenLoaded(s, load) ==
    [s EXCEPT !.files = Moved(s.files, s.IndexStream, load.st),
              !.Index = load.index,
              !.HasIndex = load.ok,
              !.origin = "loaded",
              !.ret = IF load.ok THEN "true" ELSE "false"]

OpenLoad(s, garbage) == OpenLoaded(s, LoadIndexData(s, garbage))

\* "open index file if it exists"
OpenIndex(s, indexFilename, garbage) ==
    IF indexFilename = "" THEN Return(s, "true")
    ELSE IF ~s.disk[indexFilename].exists
    THEN Return([s EXCEPT !.IndexStream = NULL], "false")
    ELSE OpenLoad([s EXCEPT !.IndexStream = Len(s.files) + 1,
                            !.IsIndexOpen = TRUE,
                            !.files = Append(s.files, NewFile(indexFilename, "rb"))],
                  garbage)

\* Open(filename, indexFilename); garbage is what the indeterminate ints of
\* a FastaIndexData hold in this call.
OpenResult(s, filename, indexFilename, garbage) ==
    IF filename # DataPath
    THEN Return([s EXCEPT !.Stream = NULL], "false")
    ELSE OpenIndex([s EXCEPT !.Stream = Len(s.files) + 1,
                             !.IsOpen = TRUE,
                             !.files = Append(s.files, NewFile(filename, "rb"))],
                   indexFilename, garbage)

Open(filename, indexFilename, garbage) ==
    Apply("Open", [NoArgs EXCEPT !.file = filename, !.idx = indexFilename],
          OpenResult(Cur, filename, indexFilename, garbage))

\* ------------------------------------------------------------------------
\* CreateIndex.
ToChar(x) == IF x >= 128 THEN x - 256 ELSE x     \* int to (signed) char

\* The first line after the header, byte by byte.
RECURSIVE MeasureLine(_, _, _, _)
MeasureLine(b, st, lineLength, byteLength) ==
    LET g == Fgetc(b, st)
        c == ToChar(g.ch)
    IN  IF c >= 0 /\ c # CHAR_LF
        THEN MeasureLine(b, g.st,
                         IF IsGraph(c) THEN lineLength + 1 ELSE lineLength,
                         byteLength + 1)
        ELSE [lineLength |-> lineLength, byteLength |-> byteLength + 1]

\* "build index entry data"
IndexData(name, sequence, offset, m) ==
    [Name |-> name, Length |-> Len(sequence), Offset |-> offset,
     LineLength |-> m.lineLength, ByteLength |-> m.byteLength]

\* while (GetNextHeader(header)) { ... Index.push_back(data); }
RECURSIVE IndexEntries(_, _, _, _)
IndexEntries(b, st, index, m) ==
    LET h == GetNextHeader(b, st)
        n == GetNameFromHeader(h.header)
        q == GetNextSequence(b, h.st, -1)
    IN  IF ~h.ok THEN [ok |-> TRUE, index |-> index, st |-> h.st]
        ELSE IF ~n.ok THEN [ok |-> FALSE, index |-> index, st |-> h.st]
        ELSE IF ~q.ok THEN [ok |-> FALSE, index |-> index, st |-> q.st]
        ELSE IndexEntries(b, q.st,
                          Append(index, IndexData(n.name, q.sequence, h.st.pos, m)),
                          m)

\* CreateIndex from "clear out prior index data" to the end of the loop.
BuildIndex(b) ==
    LET r == Fgets(b, StreamAt(0), BUFSIZE)
    IN  IF ~r.ok \/ r.st.eof \/ r.buf[1] # GT
        THEN [ok |-> FALSE, index |-> <<>>, st |-> r.st]
        ELSE IndexEntries(b, StreamAt(0), <<>>, MeasureLine(b, r.st, 0, 0))

\* WriteIndexData: the lines fputs is given, one per entry.  diskOk tells
\* whether the medium takes them; when it does not, every fputs fails.
WrittenLines(index) ==
    Flatten([i \in 1..Len(index) |-> FormatEntry(index[i])])

Fputs(s, text) ==
    [ok |-> TRUE, ub |-> "",
     files |-> [s.files EXCEPT ![s.IndexStream].pos = @ + Len(text)],
     disk |-> [s.disk EXCEPT ![s.files[s.IndexStream].path].bytes = @ \o text]]

WriteIndexData(s, diskOk) ==
    IF ~s.IsIndexOpen \/ (s.Index # <<>> /\ ~Valid(s.files, s.IndexStream))
    THEN [ok |-> FALSE,
          ub |-> IF s.IsIndexOpen THEN "fputs" ELSE "",
          files |-> s.files, disk |-> s.disk]
    ELSE IF s.Index = <<>>
    THEN [ok |-> TRUE, ub |-> "", files |-> s.files, disk |-> s.disk]
    ELSE IF s.files[s.IndexStream].mode # "wb" \/ ~diskOk
    THEN [ok |-> FALSE, ub |-> "", files |-> s.files, disk |-> s.disk]
    ELSE Fputs(s, WrittenLines(s.Index))

\* "write index data" to the end of CreateIndex.
CreateIndexWritten(s, w) ==
    IF ~w.ok
    THEN Undefined([s EXCEPT !.files = w.files, !.disk = w.disk], w.ub, "false")
    ELSE [s EXCEPT !.files = Fclose(w.files, s.IndexStream),
                   !.disk = w.disk,
                   !.HasIndex = TRUE,
                   !.IsIndexOpen = FALSE,
                   !.closed = <<s.IndexStream>>,
                   !.ub = IF Valid(w.files, s.IndexStream) THEN "" ELSE "fclose",
                   !.origin = "built",
                   !.ret = "true"]

CreateIndexWrite(s, diskOk) == CreateIndexWritten(s, WriteIndexData(s, diskOk))

\* "open index file"
CreateIndexOpen(s, indexFilename, diskOk) ==
    IF indexFilename = "" THEN CreateIndexWrite(s, diskOk)
    ELSE IF ~Writable(indexFilename)
    THEN Return([s EXCEPT !.IndexStream = NULL], "false")
    ELSE CreateIndexWrite(
             [s EXCEPT !.IndexStream = Len(s.files) + 1,
                       !.IsIndexOpen = TRUE,
                       !.files = Append(s.files, NewFile(indexFilename, "wb")),
                       !.disk = [@ EXCEPT ![indexFilename] =
                                            [exists |-> TRUE, bytes |-> <<>>]]],
             diskOk)

\* A create_index that keeps the prior table when the build fails.
CreateIndexBuiltKeepsTable(s, indexFilename, diskOk, built) ==
    IF ~built.ok
    THEN Return([s EXCEPT !.files = Moved(s.files, s.Stream, built.st)], "false")
    ELSE CreateIndexOpen([s EXCEPT !.Index = built.index,
                                   !.files = Moved(s.files, s.Stream, built.st),
                                   !.origin = "unsaved"],
                         indexFilename, diskOk)

CreateIndexBuilt(s, indexFilename, diskOk, built) ==
    IF ~built.ok
    THEN Return([s EXCEPT !.Index = built.index,
                          !.files = Moved(s.files, s.Stream, built.st),
                          !.origin = "partial"],
                "false")
    ELSE CreateIndexOpen([s EXCEPT !.Index = built.index,
                                   !.files = Moved(s.files, s.Stream, built.st),
                                   !.origin = "unsaved"],
                         indexFilename, diskOk)

CreateIndexResult(s, indexFilename, diskOk) ==
    IF ~s.IsOpen THEN Return(s, "false")
    ELSE IF ~Valid(s.files, s.Stream)
    THEN Undefined(s, "fseek", "false")      \* Rewind
    ELSE CreateIndexBuilt(s, indexFilename, diskOk, BuildIndex(Bytes[dataFile]))

CreateIndex(indexFilename, diskOk) ==
    Apply("CreateIndex", [NoArgs EXCEPT !.idx = indexFilename],
          CreateIndexResult(Cur, indexFilename, diskOk))

\* ------------------------------------------------------------------------
\* The queries.
\* "use index if available"
UseIndex(s) == s.HasIndex /\ s.Index # <<>>

\* GetLength(refId, length)
GetLengthResult(s, refId) ==
    IF ~s.IsOpen THEN Return(s, "false")
    ELSE IF ~s.HasIndex /\ s.Index = <<>> THEN Return(s, "false")
    ELSE IF refId < 0 \/ refId >= Len(s.Index)
    THEN Return(s, "throw")                  \* Index.at(refId)
    ELSE [s EXCEPT !.ret = "true", !.out = <<s.Index[refId + 1].Length>>]

GetLength(refId) ==
    Apply("GetLength", [NoArgs EXCEPT !.refId = refId], GetLengthResult(Cur, refId))

\* The sequential scan of GetBase and GetSequence: the first entry, then
\* one more entry per increment of currentId until it equals refId.  A
\* negative refId is met only after currentId has overflowed, every entry
\* of the file long read.
RECURSIVE ScanTo(_, _, _, _, _)
ScanTo(b, st, sequence, currentId, refId) ==
    IF currentId = refId \/ (refId < 0 /\ st.eof /\ sequence = <<>>)
    THEN [sequence |-> sequence, st |-> st]
    ELSE LET q == GetNextSequence(b, GetNextHeader(b, st).st, -1)
         IN  ScanTo(b, q.st, q.sequence, currentId + 1, refId)

Scan(b, refId) ==
    LET q == GetNextSequence(b, GetNextHeader(b, StreamAt(0)).st, -1)
    IN  ScanTo(b, q.st, q.sequence, 0, refId)

\* std::string::substr(pos, n), both arguments converted to size_t: it
\* throws when pos is past the end.
SubstrThrows(str, pos) == ULess(Len(str), pos)

Substr(str, pos, n) ==
    IF n < 0 \/ pos + n > Len(str)
    THEN SubSeq(str, pos + 1, Len(str))
    ELSE SubSeq(str, pos + 1, pos + n)

\* GetBase(refId, position, base), the indexed path.
SeekTo(position, data) ==
    IF data.LineLength = 0
    THEN data.Offset + position        \* after a division by zero
    ELSE data.Offset + ((position \div data.LineLength) * data.ByteLength)
             + (position % data.LineLength)

GetBaseRead(s, g) ==
    [s EXCEPT !.files = Moved(s.files, s.Stream, g.st),
              !.out = <<ToChar(g.ch)>>,
              !.ret = "true"]

GetBaseSeek(s, seekTo) ==
    IF ~Valid(s.files, s.Stream)
    THEN Undefined(s, IF s.ub = "" THEN "fseek" ELSE s.ub, "false")
    ELSE IF seekTo < 0 THEN Return(s, "false")
    ELSE GetBaseRead(s, Fgetc(Bytes[dataFile], StreamAt(seekTo)))

GetBaseAt(s, position, data) ==
    IF position < 0 \/ position > data.Length THEN Return(s, "false")
    ELSE GetBaseSeek([s EXCEPT !.ub = IF data.LineLength = 0
                                      THEN "division by zero" ELSE ""],
                     SeekTo(position, data))

GetBaseIndexed(s, refId, position) ==
    IF refId < 0 \/ refId >= Len(s.Index) THEN Return(s, "false")
    ELSE GetBaseAt(s, position, s.Index[refId + 1])

\* GetBase, the sequential path.
Scanned(s, refId, sc) ==
    [s EXCEPT !.files = Moved(s.files, s.Stream, sc.st),
              !.ub = IF refId < 0 THEN "int overflow" ELSE ""]

GetBaseScanned(s, refId, position, sc) ==
    IF ULess(Len(sc.sequence), position)
    THEN Return(Scanned(s, refId, sc), "false")
    ELSE IF position >= Len(sc.sequence)     \* sequence.at(position)
    THEN Return(Scanned(s, refId, sc), "throw")
    ELSE [Scanned(s, refId, sc) EXCEPT !.out = <<sc.sequence[position + 1]>>,
                                       !.ret = "true"]

GetBaseSequential(s, refId, position) ==
    IF ~Valid(s.files, s.Stream)
    THEN Undefined(s, "fseek", "false")      \* Rewind
    ELSE GetBaseScanned(s, refId, position, Scan(Bytes[dataFile], refId))

GetBaseResult(s, refId, position) ==
    IF ~s.IsOpen THEN Return(s, "false")
    ELSE IF UseIndex(s)
    THEN GetBaseIndexed([s EXCEPT !.mode = "indexed"], refId, position)
    ELSE GetBaseSequential([s EXCEPT !.mode = "sequential"], refId, position)

GetBase(refId, position) ==
    Apply("GetBase", [NoArgs EXCEPT !.refId = refId, !.a = position],
          GetBaseResult(Cur, refId, position))

\* GetSequence(refId, start, stop, sequence), the indexed path.
GetSequenceRead(s, start, stop, q) ==
    IF ~q.ok THEN Return([s EXCEPT !.files = Moved(s.files, s.Stream, q.st)], "false")
    ELSE IF SubstrThrows(q.sequence, start)
    THEN Return([s EXCEPT !.files = Moved(s.files, s.Stream, q.st)], "throw")
    ELSE [s EXCEPT !.files = Moved(s.files, s.Stream, q.st),
                   !.out = Substr(q.sequence, start, (stop - start) + 1),
                   !.ret = "true"]

GetSequenceAt(s, start, stop, data) ==
    IF start < 0 \/ start > stop \/ stop > data.Length THEN Return(s, "false")
    ELSE IF ~Valid(s.files, s.Stream) THEN Undefined(s, "fseek", "false")
    ELSE IF data.Offset < 0 THEN Return(s, "false")
    ELSE GetSequenceRead(s, start, stop,
             GetNextSequence(Bytes[dataFile], StreamAt(data.Offset), stop + 1))

GetSequenceIndexed(s, refId, start, stop) ==
    IF refId < 0 \/ refId >= Len(s.Index) THEN Return(s, "false")
    ELSE GetSequenceAt(s, start, stop, s.Index[refId + 1])

\* GetSequence, the sequential path.
GetSequenceScanned(s, refId, start, stop, sc) ==
    IF ULess(Len(sc.sequence), stop)
    THEN Return(Scanned(s, refId, sc), "false")
    ELSE IF SubstrThrows(sc.sequence, start)
    THEN Return(Scanned(s, refId, sc), "throw")
    ELSE [Scanned(s, refId, sc)
             EXCEPT !.out = Substr(sc.sequence, start, (stop - start) + 1),
                    !.ret = "true"]

GetSequenceSequential(s, refId, start, stop) ==
    IF ~Valid(s.files, s.Stream)
    THEN Undefined(s, "fseek", "false")      \* Rewind
    ELSE GetSequenceScanned(s, refId, start, stop, Scan(Bytes[dataFile], refId))

GetSequenceResult(s, refId, start, stop) ==
    IF ~s.IsOpen THEN Return(s, "false")
    ELSE IF UseIndex(s)
    THEN GetSequenceIndexed([s EXCEPT !.mode = "indexed"], refId, start, stop)
    ELSE GetSequenceSequential([s EXCEPT !.mode = "sequential"], refId, start, stop)

GetSequence(refId, start, stop) ==
    Apply("GetSequence", [NoArgs EXCEPT !.refId = refId, !.a = start, !.b = stop],
          GetSequenceResult(Cur, refId, start, stop))

\* ------------------------------------------------------------------------
\* The specifications.
InitSession ==
    /\ IsOpen = FALSE
    /\ HasIndex = FALSE
    /\ IsIndexOpen = FALSE
    /\ Stream = Indeterminate
    /\ IndexStream = Indeterminate
    /\ Index = <<>>
    /\ files = <<>>
    /\ disk = [p \in IndexPaths |->
                 IF p = OldIdx THEN [exists |-> TRUE, bytes |-> OldIdxBytes]
                 ELSE [exists |-> FALSE, bytes |-> <<>>]]
    /\ dataFile \in FileIds
    /\ call = [op |-> "ctor", file |-> "", idx |-> "", refId |-> 0, a |-> 0,
               b |-> 0, ret |-> "", out |-> <<>>, mode |-> "", closed |-> <<>>,
               ub |-> "", first |-> FALSE]
    /\ origin = "none"
    /\ halted = FALSE

\* Every call sequence that creates at most MaxHandles FILE objects, over
\* every data file; the queries ask about the first base only.
Init == InitSession /\ cap = MaxHandles

Next ==
    \/ New
    \/ Close
    \/ \E f \in {DataPath, MissingPath}, i \in {""} \cup IndexPaths, g \in Garbage :
           Open(f, i, g)
    \/ \E i \in {""} \cup IndexPaths, w \in BOOLEAN : CreateIndex(i, w)
    \/ GetLength(0)
    \/ GetBase(0, 0)
    \/ GetSequence(0, 0, 0)

Spec == Init /\ [][Next]_vars

\* The queries with every argument within the bounds, each asked of a
\* session right after it was opened without an index, indexed by
\* CreateIndex or closed, over a data file that can be opened and a medium
\* that takes every write.
RefIds    == (0 - 1)..MaxRefId
Positions == (0 - 1)..MaxPos

Asked == call.op \in {"GetLength", "GetBase", "GetSequence"}

NextAccess ==
    \/ Close
    \/ \E g \in Garbage : Open(DataPath, "", g)
    \/ \E i \in {"", NewIdx} : CreateIndex(i, TRUE)
    \/ \E r \in RefIds : ~Asked /\ GetLength(r)
    \/ \E r \in RefIds, p \in Positions : ~Asked /\ GetBase(r, p)
    \/ \E r \in RefIds, p \in Positions, e \in Positions :
           ~Asked /\ GetSequence(r, p, e)

SpecAccess == Init /\ [][NextAccess]_vars

\* Building an index in one session and loading it in the next: the calls
\* that succeed, with room for the four FILE objects that takes.
InitRoundTrip == InitSession /\ cap = RoundTripOpens

NextRoundTrip ==
    \/ New
    \/ Close
    \/ \E i \in {"", NewIdx}, g \in Garbage :
           (i = NewIdx => disk[NewIdx].exists) /\ Open(DataPath, i, g)
    \/ CreateIndex(NewIdx, TRUE)
    \/ GetLength(0)

SpecRoundTrip == InitRoundTrip /\ [][NextRoundTrip]_vars

\* ------------------------------------------------------------------------
\* The data-file format.  A file is valid when it is a sequence of records,
\* each a '>' header with a non-empty name followed by at least one sequence
\* line, and some width W wraps every record: each line but a record's last
\* has W characters, the last between 1 and W.
SeqChar(c) == IsGraph(c) /\ c # GT

LineLengths(fd) ==
    UNION {{Len(fd.recs[i].lines[j]) : j \in 1..Len(fd.recs[i].lines)} :
              i \in 1..Len(fd.recs)}

Width(fd) == CHOOSE w \in LineLengths(fd) : \A x \in LineLengths(fd) : x <= w

WrappedRec(rec, W) ==
    /\ rec.name # <<>>
    /\ \A i \in 1..Len(rec.name) : ~HeaderWs(rec.name[i])
    /\ Len(rec.lines) >= 1
    /\ \A j \in 1..Len(rec.lines) :
           /\ \A k \in 1..Len(rec.lines[j]) : SeqChar(rec.lines[j][k])
           /\ IF j < Len(rec.lines) THEN Len(rec.lines[j]) = W
              ELSE Len(rec.lines[j]) >= 1 /\ Len(rec.lines[j]) <= W

ValidFile(f) ==
    LET fd == DataFiles[f]
    IN  /\ fd.pre = <<>>
        /\ Len(fd.recs) >= 1
        /\ \A i \in 1..Len(fd.recs) : Len(fd.recs[i].lines) >= 1
        /\ \A i \in 1..Len(fd.recs) : WrappedRec(fd.recs[i], Width(fd))

\* The first record's first sequence line is a full line of W characters.
FirstLineFull(f) ==
    Len(DataFiles[f].recs[1].lines[1]) = Width(DataFiles[f])

Records == DataFiles[dataFile].recs

\* The last call asked about record refId of a valid data file.
AsksRecord == ValidFile(dataFile) /\ call.refId >= 0 /\ call.refId < Len(Records)

Sequence == Dewrap(Records[call.refId + 1])

\* The last call was a query of an open session that took the sequential
\* path, or the indexed path over the table a successful create_index built.
OnBuiltOrScan ==
    /\ IsOpen
    /\ \/ call.mode = "sequential"
       \/ call.mode = "indexed" /\ origin = "built"

GetBaseInRange ==
    /\ call.op = "GetBase"
    /\ OnBuiltOrScan
    /\ AsksRecord
    /\ call.a >= 0 /\ call.a < Len(Sequence)

\* C1: on a valid data file, get_base on a session whose index was built
\* by create_index and get_base on a session with no index both succeed
\* with the character at that position of the record's de-wrapped sequence,
\* for every record and every position within it.
C1_GetBaseAgrees ==
    GetBaseInRange =>
        call.ret = "true" /\ call.out = <<Sequence[call.a + 1]>>

\* C2: on a valid data file, get_sequence(refId, start, stop) with
\* 0 <= start <= stop < length succeeds with the stop - start + 1 characters
\* at positions start..stop of the record's de-wrapped sequence, free of
\* line terminators, with or without an index.
C2_GetSequenceSlice ==
    (/\ call.op = "GetSequence"
     /\ OnBuiltOrScan
     /\ AsksRecord
     /\ 0 <= call.a /\ call.a <= call.b /\ call.b < Len(Sequence))
    => /\ call.ret = "true"
       /\ call.out = SubSeq(Sequence, call.a + 1, call.b + 1)
       /\ Len(call.out) = (call.b - call.a) + 1
       /\ \A i \in 1..Len(call.out) : call.out[i] \notin {CHAR_LF, CHAR_CR}

\* C3: after a successful create_index the table holds one entry per
\* record, in file order, each with the record's name and the number of its
\* sequence characters, and get_length(i) succeeds with that number for
\* every i from 0 to the number of records - 1.
C3_GetLengthAfterCreateIndex ==
    /\ (call.op = "CreateIndex" /\ call.ret = "true") =>
           /\ Len(Index) = Len(Records)
           /\ \A i \in 1..Len(Records) :
                  /\ Index[i].Name = Records[i].name
                  /\ Index[i].Length = Len(Dewrap(Records[i]))
    /\ (/\ call.op = "GetLength" /\ IsOpen /\ origin = "built"
        /\ call.refId >= 0 /\ call.refId < Len(Records)) =>
           call.ret = "true" /\ call.out = <<Len(Sequence)>>

\* What does hold of C1, C2 and C3.  Every header line of the data file,
\* terminator included, fits the buffer fgets fills.
HeadersFit(f) ==
    \A i \in 1..Len(DataFiles[f].recs) :
        1 + Len(DataFiles[f].recs[i].name) + Len(DataFiles[f].recs[i].desc)
          + Len(DataFiles[f].term) < BUFSIZE

\* C2 and C3 hold on the data files whose header lines fit the buffer.
C2_SliceWhenHeadersFit == HeadersFit(dataFile) => C2_GetSequenceSlice

C3_LengthWhenHeadersFit == HeadersFit(dataFile) => C3_GetLengthAfterCreateIndex

\* C1 holds on those whose first record's first sequence line is, besides,
\* a full line of W characters (the line the index takes the width of every
\* record from).
C1_AgreesWhenFirstLineFull ==
    (HeadersFit(dataFile) /\ FirstLineFull(dataFile)) => C1_GetBaseAgrees

\* The table create_index builds from the data file, when it builds one.
Built == BuildIndex(Bytes[dataFile])

\* The index file holds what a successful create_index wrote for the data
\* file.
Persisted ==
    /\ disk[NewIdx].exists
    /\ Built.ok
    /\ disk[NewIdx].bytes = WrittenLines(Built.index)

\* C4: round trip.  When create_index with a non-empty index path has
\* succeeded, opening the same data file with that index path on a fresh
\* session succeeds and loads a table with the same entries in the same
\* order, equal field by field.
C4_RoundTrip ==
    (/\ call.op = "Open" /\ call.first
     /\ call.file = DataPath /\ call.idx = NewIdx
     /\ Persisted)
    => call.ret = "true" /\ Index = Built.index

\* C5: no handle leak.  After any sequence of calls on one session, a
\* following close leaves no handle the session acquired still open.
C5_NoHandleLeak ==
    call.op = "Close" =>
        \A h \in 1..Len(files) : files[h].open => files[h] = Lost

\* C6: no double release and no use after release.  No call gives fclose,
\* fseek, fgetc, fgets or fputs a handle that is not currently open, and
\* whenever IsOpen (IsIndexOpen) is true the data (index) handle is a valid
\* open handle.
C6_HandlesValid ==
    /\ call.ub \notin {"fclose", "fseek", "fputs"}
    /\ IsOpen => Valid(files, Stream)
    /\ IsIndexOpen => Valid(files, IndexStream)

Session == <<IsOpen, HasIndex, IsIndexOpen, Stream, IndexStream, Index, files, disk>>

\* C7: close is idempotent.  Every close returns success; a close on a
\* session that was never opened, and a close right after a close, change
\* no state and release no handle.
C7_CloseIdempotent ==
    [][call'.op = "Close" =>
         /\ call'.ret = "true"
         /\ call.op \in {"ctor", "Close"} =>
                Session' = Session /\ call'.closed = <<>>]_vars

\* C8: the Index Table does not outlive the session.  After close returns
\* the table is empty and the session is not marked indexed, whether the
\* table was built by create_index or loaded by open.
C8_TableEndsWithSession ==
    call.op = "Close" => Index = <<>> /\ ~HasIndex

\* C9: create_index with an empty index path on an open session over a
\* well-formed data file returns success, builds the in-memory table with
\* one entry per record, and writes no index file.
C9_EmptyPathBuildsInMemory ==
    [][(/\ call'.op = "CreateIndex" /\ call'.idx = ""
        /\ IsOpen /\ Valid(files, Stream)
        /\ ValidFile(dataFile))
       => /\ call'.ret = "true"
          /\ HasIndex'
          /\ Len(Index') = Len(Records)
          /\ disk' = disk]_vars

\* create_index was called on a session holding an open handle on a data
\* file whose first byte is not '>'.
CreateIndexOnHeaderless ==
    /\ call.op = "CreateIndex"
    /\ IsOpen /\ Valid(files, Stream)
    /\ Bytes[dataFile][1] # GT

\* C10, as the claim states it: create_index on an open data file whose
\* first byte is not '>' returns failure and leaves the Index Table equal to
\* what it was before the call, for every prior table.
C10_FailureKeepsTable ==
    [][CreateIndexOnHeaderless' => call'.ret = "false" /\ Index' = Index]_vars

\* C10, amended: create_index on an open data file whose first byte is not
\* '>' returns failure and leaves the Index Table empty; the table equals
\* the prior one only when that was empty, a prior loaded table is dropped.
C10_FailureEmptiesTable ==
    CreateIndexOnHeaderless => call.ret = "false" /\ Index = <<>>

\* A failed create_index on such a file, on a session that had loaded
\* entries from an index file when it was opened.
C10_Witness ==
    /\ CreateIndexOnHeaderless
    /\ IsIndexOpen /\ Valid(files, IndexStream)
    /\ files[IndexStream].path = OldIdx
    /\ call.ret = "false"
    /\ origin = "partial"

\* The entries of Index were produced by a create_index that then returned
\* failure: the build stopped part way, or the table could not be written.
FromFailedBuild == origin \in {"partial", "unsaved"}

\* C11: whenever create_index returns failure the Index Table holds no
\* entry produced by that failed build, so that get_length, get_base and
\* get_sequence never answer from a half-built table.
C11_FailedBuildLeavesNoEntry ==
    /\ FromFailedBuild => Index = <<>>
    /\ (call.op = "GetLength" /\ FromFailedBuild) => call.ret # "true"
    /\ (call.op \in {"GetBase", "GetSequence"} /\ FromFailedBuild) =>
           call.mode # "indexed"

OutOfTable == call'.refId < 0 \/ call'.refId >= Len(Index)

\* C12: get_length on an open session with a non-empty Index Table and a
\* record_id outside [0, table size) returns a failure to the caller as a
\* result value, without raising or aborting, and changes no session state.
C12_GetLengthOutOfRangeFails ==
    [][(/\ call'.op = "GetLength"
        /\ IsOpen /\ Index # <<>>
        /\ OutOfTable)
       => call'.ret = "false" /\ Session' = Session]_vars

\* C13: whenever the Index Table is empty, get_length returns a failure
\* result for every record_id, whatever calls led to the empty table.
C13_GetLengthNotIndexedFails ==
    (call.op = "GetLength" /\ Index = <<>>) => call.ret = "false"

\* The index-file format: lines of exactly five white-space separated
\* fields, the last four of them decimal integers.
RECURSIVE SplitAt(_, _, _)
SplitAt(text, seps, cur) ==
    IF text = <<>> THEN (IF cur = <<>> THEN <<>> ELSE <<cur>>)
    ELSE IF Head(text) \in seps
    THEN (IF cur = <<>> THEN <<>> ELSE <<cur>>) \o SplitAt(Tail(text), seps, <<>>)
    ELSE SplitAt(Tail(text), seps, Append(cur, Head(text)))

IsInteger(field) ==
    LET ds == IF field[1] = 45 THEN Tail(field) ELSE field
    IN  ds # <<>> /\ \A i \in 1..Len(ds) : IsDigit(ds[i])

WellFormedLine(line) ==
    LET fields == SplitAt(line, {SPACE, TAB, 11, 12, CHAR_CR}, <<>>)
    IN  Len(fields) = 5 /\ \A k \in 2..5 : IsInteger(fields[k])

IndexLines(text) == SplitAt(text, {CHAR_LF}, <<>>)

HasMalformedLine(text) ==
    \E i \in 1..Len(IndexLines(text)) : ~WellFormedLine(IndexLines(text)[i])

WellFormedLines(text) ==
    {i \in 1..Len(IndexLines(text)) : WellFormedLine(IndexLines(text)[i])}

\* C14: loading an index file that contains a malformed line fails: no
\* entry is appended for that line, and open called with that index path
\* returns failure and does not mark the session indexed.
C14_MalformedIndexFailsOpen ==
    (/\ call.op = "Open" /\ call.file = DataPath /\ call.idx # ""
     /\ disk[call.idx].exists
     /\ HasMalformedLine(disk[call.idx].bytes))
    => /\ call.ret = "false"
       /\ ~HasIndex
       /\ Len(Index) <= Cardinality(WellFormedLines(disk[call.idx].bytes))

\* C15: mode dispatch follows the Index Table.  get_base and get_sequence
\* take the sequential path only when the table is empty and the indexed
\* path whenever it holds entries, however they came there; and get_length
\* succeeds exactly in the states where get_base takes the indexed path.
C15_DispatchFollowsTable ==
    /\ (call.op \in {"GetBase", "GetSequence"} /\ call.mode # "") =>
           (call.mode = "sequential" <=> Index = <<>>)
    /\ (call.op = "GetLength" /\ call.refId >= 0 /\ call.refId < Len(Index)) =>
           (call.ret = "true" <=> (IsOpen /\ UseIndex(Cur)))

\* The last call was a get_base or get_sequence that took the sequential
\* path.
ScannedQuery ==
    call.op \in {"GetBase", "GetSequence"} /\ call.mode = "sequential"

\* The position, or the end of the range, the last query asked for.
AskedUpTo == IF call.op = "GetBase" THEN call.a ELSE call.b

\* C16: on the sequential path get_base and get_sequence always hand the
\* caller a success or a failure result and never abort or raise; on a
\* valid data file they return failure when the file has fewer than
\* record_id + 1 records or the position (the range) exceeds the length of
\* the record's sequence.
C16_SequentialReturnsResult ==
    ScannedQuery =>
        /\ call.ret \in {"true", "false"}
        /\ (ValidFile(dataFile) /\ call.refId >= Len(Records)) =>
               call.ret = "false"
        /\ (AsksRecord /\ HeadersFit(dataFile) /\ AskedUpTo > Len(Sequence)) =>
               call.ret = "false"

\* C17: on the sequential path get_base and get_sequence terminate for
\* every record_id, negative ones and those past the last record included:
\* the scan stops no later than end-of-input and the call returns.
C17_SequentialTerminates ==
    ScannedQuery => call.ub = "" /\ call.ret # "crash"

\* The last call was a query that took the indexed path; the entry it
\* asked about, when record_id is within the table.
InTable == call.refId >= 0 /\ call.refId < Len(Index)

Entry == Index[call.refId + 1]

\* C18: on the indexed path get_sequence returns failure for a record_id
\* outside the table and for every start, stop that is not
\* 0 <= start <= stop <= entry.length, and every other call that succeeds,
\* stop = entry.length included, returns exactly stop - start + 1
\* characters.
C18_IndexedGetSequenceRange ==
    (call.op = "GetSequence" /\ call.mode = "indexed") =>
        /\ ~InTable => call.ret = "false"
        /\ (InTable /\ ~(0 <= call.a /\ call.a <= call.b /\ call.b <= Entry.Length))
               => call.ret = "false"
        /\ (/\ InTable
            /\ 0 <= call.a /\ call.a <= call.b /\ call.b <= Entry.Length
            /\ call.ret = "true")
               => Len(call.out) = (call.b - call.a) + 1

\* seek_target = offset + (position / line_length) * byte_length
\*                      + position % line_length
SeekTarget ==
    Entry.Offset + ((call.a \div Entry.LineLength) * Entry.ByteLength)
                 + (call.a % Entry.LineLength)

\* C19: on the indexed path get_base returns failure for a record_id
\* outside the table and for a position outside [0, entry.length]; every
\* other call, for every entry of the table, computes seek_target, seeks
\* there and succeeds with the byte of the data file at that offset.
C19_IndexedGetBaseSeeks ==
    (call.op = "GetBase" /\ call.mode = "indexed") =>
        /\ ~InTable => call.ret = "false"
        /\ (InTable /\ ~(0 <= call.a /\ call.a <= Entry.Length))
               => call.ret = "false"
        /\ (InTable /\ 0 <= call.a /\ call.a <= Entry.Length)
               => /\ call.ub = ""
                  /\ call.ret = "true"
                  /\ Entry.LineLength # 0
                  /\ SeekTarget < Len(Bytes[dataFile])
                  /\ call.out = <<Bytes[dataFile][SeekTarget + 1]>>

\* The first record's first sequence line, as the data file has it.
FirstLine == DataFiles[dataFile].recs[1].lines[1]

Visible(line) == Cardinality({k \in 1..Len(line) : IsGraph(line[k])})

\* C20: after a successful create_index every entry has byte_length >=
\* line_length, length >= 0, and line_length > 0 when its length > 0, and
\* all entries carry the visible-character count and the raw byte count,
\* terminator included, of the first record's first sequence line.
C20_EntryGeometry ==
    (call.op = "CreateIndex" /\ call.ret = "true") =>
        \A i \in 1..Len(Index) :
            /\ Index[i].ByteLength >= Index[i].LineLength
            /\ Index[i].Length >= 0
            /\ Index[i].Length > 0 => Index[i].LineLength > 0
            /\ Index[i].LineLength = Visible(FirstLine)
            /\ Index[i].ByteLength = Len(FirstLine) + Len(DataFiles[dataFile].term)

=============================================================================
